---- MODULE Spec2Model ----
(***************************************************************************)
(* Tic-tac-toe environment (EnvTicTacToe, "Part 4/tic_tac_toe.py") and the *)
(* tabular self-play learner (PolicySARSA, "Part 4/tic_tac_toe_SARSA.py"). *)
(*                                                                         *)
(* Numbers.  Rewards are kept in hundredths and table values in            *)
(* hundredths times 10^MaxGames, so that every update                      *)
(* Q += learning_rate * (G - Q) with learning_rate a multiple of 0.1 is    *)
(* exact for the at most MaxGames updates an entry can receive.  Python    *)
(* floats are abstracted to these exact decimals.                          *)
(*                                                                         *)
(* A board is a function 0..8 -> 0..2 (0 empty, 1 X, 2 O), which is also   *)
(* the tuple used as key of the table.  A Python dict is a sequence of     *)
(* records [a, v] in insertion order, because max() over a dict iterates   *)
(* in insertion order.                                                     *)
(***************************************************************************)
EXTENDS Integers, Sequences, FiniteSets, TLC

\* ---------------------------------------------------------------- bounds
MaxGames == 3        \* largest num_games given to _learn
MaxExplore == 2      \* exploration draws (random() < epsilon) per run
ExploreWindow == 4   \* exploration only in the first moves of an episode
MaxChoice == 3       \* np_random.choice returns one of the first legal actions
MaxIllegal == 1      \* steps on an occupied / out-of-range cell per episode

\* ------------------------------------------------------------- constants
NumCells == 9
RewardStep == -1     \* -0.01, in hundredths
RewardWin == 100     \* 1
RewardDraw == 50     \* 0.5
RewardLoss == -200   \* -2
LrDen == 10          \* learning rates are given in tenths

Unit == 10 ^ MaxGames            \* table values: hundredths * Unit
Cells == 0 .. (NumCells - 1)
Marks == {1, 2}
EmptyBoard == [c \in Cells |-> 0]
CellOrder == <<0, 1, 2, 3, 4, 5, 6, 7, 8>>
Epsilons == {0, 40}              \* epsilon, in percent
Draws == {0, 50}                 \* np_random.random(), in percent
LearningRates == {1, 10}         \* learning_rate, in tenths
EnvActions == 0 .. NumCells      \* NumCells stands for an out-of-range index

VARIABLES
  board, turn, count_moves,      \* EnvTicTacToe fields
  terminated,                    \* flag returned by the latest step
  raised,                        \* the latest call ended in an exception
  n_illegal,                     \* history: illegal steps since reset
  Q,                             \* PolicySARSA.Q
  epsilon, learning_rate, num_games,   \* arguments of _learn
  i, sequence, learn_board, learn_turn, action,   \* locals of _learn
  pc,                            \* position inside _learn
  branch,                        \* history: branch of the latest _get_action
  explored,                      \* history: exploration draws so far
  rng,                           \* env.np_random: outputs drawn since reseed
  rng_log,                       \* history: outputs per episode of this run
  first                          \* history: table and outputs of a first run

envvars == <<board, turn, count_moves, terminated, raised, n_illegal>>
learnvars == <<Q, epsilon, learning_rate, num_games, i, sequence,
               learn_board, learn_turn, action, pc, branch, explored>>
rngvars == <<rng, rng_log, first>>
vars == <<board, turn, count_moves, terminated, raised, n_illegal,
          Q, epsilon, learning_rate, num_games, i, sequence,
          learn_board, learn_turn, action, pc, branch, explored,
          rng, rng_log, first>>

\* ------------------------------------------------------- EnvTicTacToe
WinLines == << <<0, 1, 2>>, <<3, 4, 5>>, <<6, 7, 8>>,
               <<0, 3, 6>>, <<1, 4, 7>>, <<2, 5, 8>>,
               <<0, 4, 8>>, <<2, 4, 6>> >>

is_winner(b, mark) ==
  \E k \in DOMAIN WinLines : \A j \in 1 .. 3 : b[WinLines[k][j]] = mark

get_legal_actions(b) == SelectSeq(CellOrder, LAMBDA pos : b[pos] = 0)

step_terminated_full_only(b, mover) == Len(get_legal_actions(b)) = 0

step_terminated(b, mover) ==
  is_winner(b, mover) \/ Len(get_legal_actions(b)) = 0

Full(b) == \A c \in Cells : b[c] # 0

Min(x, y) == IF x <= y THEN x ELSE y

flip_stuck(t) == IF t = 1 THEN 2 ELSE 2

flip(t) == IF t = 1 THEN 2 ELSE 1

reset_keeps_counter ==
  /\ board' = EmptyBoard
  /\ turn' = 1
  /\ count_moves' = count_moves
  /\ n_illegal' = 0

reset ==
  /\ board' = EmptyBoard
  /\ turn' = 1
  /\ count_moves' = 0
  /\ n_illegal' = 0

step(a) ==
  /\ count_moves' = count_moves + 1
  /\ n_illegal' = n_illegal + (IF a \in Cells /\ board[a] = 0 THEN 0 ELSE 1)
  /\ IF a \notin Cells
       THEN /\ raised' = TRUE
            /\ UNCHANGED <<board, turn, terminated>>
       ELSE /\ raised' = FALSE
            /\ board' = [board EXCEPT ![a] = turn]
            /\ terminated' = step_terminated([board EXCEPT ![a] = turn], turn)
            /\ turn' = flip(turn)

\* ------------------------------------------------------- dict helpers
NoSequence == [p \in Marks |-> [board |-> << >>, action |-> << >>, reward |-> << >>]]
EmptyTable == [b \in {} |-> << >>]

Keys(d) == {d[k].a : k \in DOMAIN d}
IndexOf(d, a) == CHOOSE k \in DOMAIN d : d[k].a = a
Get(d, a) == d[IndexOf(d, a)].v
HasEntry(T, b, a) == b \in DOMAIN T /\ a \in Keys(T[b])
Entries(T) == {<<b, a>> \in (DOMAIN T) \X Cells : a \in Keys(T[b])}
Value(T, b, a) == Get(T[b], a)

EnsureBoard_fresh(T, b) ==
  IF b \in DOMAIN T THEN [T EXCEPT ![b] = << >>] ELSE T @@ (b :> << >>)

EnsureBoard(T, b) == IF b \in DOMAIN T THEN T ELSE T @@ (b :> << >>)
EnsureEntry(d, a) == IF a \in Keys(d) THEN d ELSE Append(d, [a |-> a, v |-> 0])

EnsureAll_first(d, legal) ==
  IF legal = << >> THEN d ELSE EnsureEntry(d, Head(legal))

RECURSIVE EnsureAll(_, _)
EnsureAll(d, legal) ==
  IF legal = << >> THEN d
  ELSE EnsureAll(EnsureEntry(d, Head(legal)), Tail(legal))

MaxValue(d) == CHOOSE m \in {d[k].v : k \in DOMAIN d} :
                 \A k \in DOMAIN d : d[k].v <= m
FirstMaxIndex(d) == CHOOSE k \in DOMAIN d :
                      /\ d[k].v = MaxValue(d)
                      /\ \A j \in DOMAIN d : d[j].v = MaxValue(d) => k <= j
ArgMax(d) == d[FirstMaxIndex(d)].a

\* ------------------------------------------------ PolicySARSA._get_action
explore_all(T, b, k) ==
  LET legal == get_legal_actions(b)
      T1 == EnsureBoard(T, b)
  IN IF legal = << >>
       THEN [Q |-> T1, action |-> -1, raised |-> TRUE]
       ELSE [Q |-> [T1 EXCEPT ![b] = EnsureAll(@, legal)],
             action |-> legal[k], raised |-> FALSE]

\* Exploration branch: np_random.choice(legal_actions) returns legal[k].
explore(T, b, k) ==
  LET legal == get_legal_actions(b)
      T1 == EnsureBoard(T, b)
  IN IF legal = << >>
       THEN [Q |-> T1, action |-> -1, raised |-> TRUE]
       ELSE [Q |-> [T1 EXCEPT ![b] = EnsureEntry(@, legal[k])],
             action |-> legal[k], raised |-> FALSE]

exploit_all_cells(T, b) ==
  LET T1 == EnsureBoard(T, b)
      d == EnsureAll(T1[b], CellOrder)
      T2 == [T1 EXCEPT ![b] = d]
  IN IF d = << >>
       THEN [Q |-> T2, action |-> -1, raised |-> TRUE]
       ELSE [Q |-> T2, action |-> ArgMax(d), raised |-> FALSE]

\* Exploitation branch: initialise every legal action, then max over the dict.
exploit(T, b) ==
  LET legal == get_legal_actions(b)
      T1 == EnsureBoard(T, b)
      d == EnsureAll(T1[b], legal)
      T2 == [T1 EXCEPT ![b] = d]
  IN IF d = << >>
       THEN [Q |-> T2, action |-> -1, raised |-> TRUE]
       ELSE [Q |-> T2, action |-> ArgMax(d), raised |-> FALSE]

\* ------------------------------------------------------ PolicySARSA._learn
RECURSIVE SumAfter(_, _)
SumAfter(rewards, idx) ==
  IF idx + 1 > Len(rewards) THEN 0
  ELSE rewards[idx + 1] + SumAfter(rewards, idx + 1)

RECURSIVE SumFrom(_, _)
SumFrom(rewards, idx) ==
  IF idx > Len(rewards) THEN 0 ELSE rewards[idx] + SumFrom(rewards, idx + 1)

updated_overwrite(old, G, lr) == (lr * (G * Unit)) \div LrDen

\* Q[board][action] += learning_rate * (return_from_sequence - Q[board][action])
updated(old, G, lr) == old + (lr * (G * Unit - old)) \div LrDen

SetValue(T, b, a, v) == [T EXCEPT ![b][IndexOf(T[b], a)].v = v]

terminal_reward_zero_sum(wins, draw) ==
  IF wins THEN RewardWin ELSE IF draw THEN RewardDraw ELSE 0 - RewardWin

terminal_reward(wins, draw) ==
  IF wins THEN RewardWin ELSE IF draw THEN RewardDraw ELSE RewardLoss

RECURSIVE backward_pass(_, _, _, _, _)
backward_pass(st, seq, p, idx, lr) ==
  IF p > 2 THEN st
  ELSE IF idx > Len(seq[p].board) THEN backward_pass(st, seq, p + 1, 1, lr)
  ELSE LET b == seq[p].board[idx]
           a == seq[p].action[idx]
           G == SumFrom(seq[p].reward, idx)
           st1 == [st EXCEPT !.turn = p, !.board = b, !.action = a]
       IN IF ~HasEntry(st.Q, b, a)
            THEN [st1 EXCEPT !.raised = TRUE]
            ELSE backward_pass(
                   [st1 EXCEPT !.Q = SetValue(st.Q, b, a,
                                              updated(Value(st.Q, b, a), G, lr))],
                   seq, p, idx + 1, lr)

LearnStart_keeps_table ==
  /\ pc = "start"
  /\ Q' = Q
  /\ i' = 0
  /\ pc' = "loop"
  /\ rng_log' = << >>
  /\ UNCHANGED <<epsilon, learning_rate, num_games, sequence, learn_board,
                 learn_turn, action, branch, explored, rng, first>>
  /\ UNCHANGED envvars

LearnStart ==
  /\ pc = "start"
  /\ Q' = EmptyTable
  /\ i' = 0
  /\ pc' = "loop"
  /\ rng_log' = << >>
  /\ UNCHANGED <<epsilon, learning_rate, num_games, sequence, learn_board,
                 learn_turn, action, branch, explored, rng, first>>
  /\ UNCHANGED envvars

loop_continues_le(k, n) == k <= n

\* while i < num_games
loop_continues(k, n) == k < n

EpisodeStart ==
  /\ pc = "loop"
  /\ loop_continues(i, num_games)
  /\ reset
  /\ sequence' = NoSequence
  /\ learn_board' = EmptyBoard
  /\ learn_turn' = 1
  /\ terminated' = FALSE
  /\ pc' = "select"
  /\ rng' = << >>
  /\ rng_log' = Append(rng_log, << >>)
  /\ UNCHANGED <<raised, Q, epsilon, learning_rate, num_games, i, action,
                 branch, explored, first>>

LearnReturn ==
  /\ pc = "loop"
  /\ ~loop_continues(i, num_games)
  /\ pc' = "done"
  /\ UNCHANGED <<Q, epsilon, learning_rate, num_games, i, sequence,
                 learn_board, learn_turn, action, branch, explored>>
  /\ UNCHANGED envvars
  /\ UNCHANGED rngvars

\* if epsilon > 0 and env.np_random.random() < epsilon: "and" evaluates its
\* right operand, the draw, only when the left one holds.
consults_rng_always(eps) == TRUE

consults_rng(eps) == eps > 0

Random(u) == [f |-> "random", v |-> u]
Choice(k) == [f |-> "choice", v |-> k]

\* np_random.choice(legal_actions): an index into legal_actions; an empty
\* list makes it raise (index 0 stands for that).
Choices(legal) ==
  IF legal = << >> THEN {0} ELSE 1 .. Min(Len(legal), MaxChoice)

\* The generator is a function of its seed: in a second run with the same
\* seeds, episode i + 1 draws again what the first run drew there.
Replays(outs) ==
  \A j \in DOMAIN outs :
    LET ep == i + 1
        pos == Len(rng) + j
    IN (first.done /\ ep <= Len(first.log) /\ pos <= Len(first.log[ep])
          /\ first.log[ep][pos].f = outs[j].f)
         => first.log[ep][pos] = outs[j]

Drawn(outs) ==
  /\ rng' = rng \o outs
  /\ rng_log' = IF rng_log = << >> THEN rng_log
                ELSE [rng_log EXCEPT ![Len(rng_log)] = rng \o outs]
  /\ first' = first

Selected(r, br) ==
  /\ Q' = r.Q
  /\ action' = r.action
  /\ raised' = r.raised
  /\ branch' = br
  /\ pc' = IF r.raised THEN "done" ELSE "step"
  /\ UNCHANGED <<board, turn, count_moves, terminated, n_illegal, epsilon,
                 learning_rate, num_games, i, sequence, learn_board, learn_turn>>

GetActionExplore ==
  /\ pc = "select"
  /\ consults_rng(epsilon)
  /\ \E u \in Draws : \E k \in Choices(get_legal_actions(board)) :
       /\ u < epsilon
       /\ Replays(<<Random(u), Choice(k)>>)
       /\ Drawn(<<Random(u), Choice(k)>>)
       /\ Selected(explore(Q, board, k), "explore")
  /\ explored' = explored + 1

SelectExplore ==
  /\ explored < MaxExplore
  /\ count_moves < ExploreWindow
  /\ GetActionExplore

SelectExploit ==
  /\ pc = "select"
  /\ IF consults_rng(epsilon)
       THEN \E u \in Draws :
              /\ ~(u < epsilon)
              /\ Replays(<<Random(u)>>)
              /\ Drawn(<<Random(u)>>)
              /\ Selected(exploit(Q, board), "exploit")
       ELSE /\ Drawn(<< >>)
            /\ Selected(exploit(Q, board), "exploit")
  /\ explored' = explored

StepRecord_after ==
  /\ pc = "step"
  /\ step(action)
  /\ IF raised'
       THEN /\ pc' = "done"
            /\ UNCHANGED <<sequence, learn_board, learn_turn>>
       ELSE /\ sequence' = [sequence EXCEPT
                 ![learn_turn].board = Append(@, board'),
                 ![learn_turn].action = Append(@, action),
                 ![learn_turn].reward = Append(@, RewardStep)]
            /\ learn_board' = board'
            /\ learn_turn' = turn'
            /\ pc' = IF terminated' THEN "finish" ELSE "select"
  /\ UNCHANGED <<Q, epsilon, learning_rate, num_games, i, action, branch,
                 explored>>
  /\ UNCHANGED rngvars

StepRecord_nostop ==
  /\ pc = "step"
  /\ step(action)
  /\ IF raised'
       THEN /\ pc' = "done"
            /\ UNCHANGED <<sequence, learn_board, learn_turn>>
       ELSE /\ sequence' = [sequence EXCEPT
                 ![learn_turn].board = Append(@, learn_board),
                 ![learn_turn].action = Append(@, action),
                 ![learn_turn].reward = Append(@, RewardStep)]
            /\ learn_board' = board'
            /\ learn_turn' = turn'
            /\ pc' = IF Full(board') THEN "finish" ELSE "select"
  /\ UNCHANGED <<Q, epsilon, learning_rate, num_games, i, action, branch,
                 explored>>
  /\ UNCHANGED rngvars

StepRecord ==
  /\ pc = "step"
  /\ step(action)
  /\ IF raised'
       THEN /\ pc' = "done"
            /\ UNCHANGED <<sequence, learn_board, learn_turn>>
       ELSE /\ sequence' = [sequence EXCEPT
                 ![learn_turn].board = Append(@, learn_board),
                 ![learn_turn].action = Append(@, action),
                 ![learn_turn].reward = Append(@, RewardStep)]
            /\ learn_board' = board'
            /\ learn_turn' = turn'
            /\ pc' = IF terminated' THEN "finish" ELSE "select"
  /\ UNCHANGED <<Q, epsilon, learning_rate, num_games, i, action, branch,
                 explored>>
  /\ UNCHANGED rngvars

EpisodeEnd ==
  /\ pc = "finish"
  /\ LET x_wins == is_winner(board, 1)
         o_wins == is_winner(board, 2)
         draw == ~x_wins /\ ~o_wins
         seq1 == [sequence EXCEPT
                    ![1].reward = Append(@, terminal_reward(x_wins, draw)),
                    ![2].reward = Append(@, terminal_reward(o_wins, draw))]
         st == backward_pass([Q |-> Q, raised |-> FALSE, turn |-> learn_turn,
                              board |-> learn_board, action |-> action],
                             seq1, 1, 1, learning_rate)
     IN /\ sequence' = seq1
        /\ Q' = st.Q
        /\ raised' = st.raised
        /\ learn_turn' = st.turn
        /\ learn_board' = st.board
        /\ action' = st.action
        /\ i' = IF st.raised THEN i ELSE i + 1
        /\ pc' = IF st.raised THEN "done" ELSE "loop"
  /\ UNCHANGED <<board, turn, count_moves, terminated, n_illegal, epsilon,
                 learning_rate, num_games, branch, explored>>
  /\ UNCHANGED rngvars

\* --------------------------------------------- callers of the environment
EnvReset ==
  /\ reset
  /\ terminated' = FALSE
  /\ raised' = FALSE
  /\ UNCHANGED learnvars
  /\ UNCHANGED rngvars

EnvStep(a) ==
  /\ n_illegal + (IF a \in Cells /\ board[a] = 0 THEN 0 ELSE 1) <= MaxIllegal
  /\ step(a)
  /\ UNCHANGED learnvars
  /\ UNCHANGED rngvars

\* ---------------------------------------------------------- specifications
NoFirstRun == [done |-> FALSE, Q |-> EmptyTable, log |-> << >>]

InitEnvFields ==
  /\ board = EmptyBoard
  /\ turn = 1
  /\ count_moves = 0
  /\ terminated = FALSE
  /\ raised = FALSE
  /\ n_illegal = 0

InitPolicy ==
  /\ Q = EmptyTable
  /\ i = 0
  /\ sequence = NoSequence
  /\ learn_board = EmptyBoard
  /\ learn_turn = 1
  /\ action = 0
  /\ branch = "none"
  /\ explored = 0
  /\ rng = << >>
  /\ rng_log = << >>
  /\ first = NoFirstRun

\* A run of _learn(env, epsilon, learning_rate, num_games) on a new policy.
Init ==
  /\ InitEnvFields
  /\ InitPolicy
  /\ pc = "start"
  /\ epsilon \in Epsilons
  /\ learning_rate \in LearningRates
  /\ num_games \in 0 .. MaxGames

Next ==
  \/ LearnStart
  \/ EpisodeStart
  \/ SelectExplore
  \/ SelectExploit
  \/ StepRecord
  \/ EpisodeEnd
  \/ LearnReturn

Spec == Init /\ [][Next]_vars

\* The environment driven by a caller that passes any cell index.
InitEnv ==
  /\ InitEnvFields
  /\ InitPolicy
  /\ pc = "idle"
  /\ epsilon = 0
  /\ learning_rate = 1
  /\ num_games = 0

NextEnv ==
  \/ EnvReset
  \/ \E a \in EnvActions : EnvStep(a)

SpecEnv == InitEnv /\ [][NextEnv]_vars

\* _learn called with any arguments, also ones outside the documented ranges.
ConfigEpsilons == {-10, 0, 40}
ConfigLearningRates == {0, 1, 20}

InitConfig ==
  /\ InitEnvFields
  /\ InitPolicy
  /\ pc = "start"
  /\ epsilon \in ConfigEpsilons
  /\ learning_rate \in ConfigLearningRates
  /\ num_games \in -1 .. MaxGames

SpecConfig == InitConfig /\ [][Next]_vars

\* _learn called a second time on the same policy and environment with the
\* same arguments and the same seed.
Rerun ==
  /\ pc = "done"
  /\ ~raised
  /\ ~first.done
  /\ first' = [done |-> TRUE, Q |-> Q, log |-> rng_log]
  /\ pc' = "start"
  /\ explored' = 0
  /\ UNCHANGED <<Q, epsilon, learning_rate, num_games, i, sequence,
                 learn_board, learn_turn, action, branch, rng, rng_log>>
  /\ UNCHANGED envvars

NextRerun ==
  \/ Next
  \/ Rerun

SpecRerun == Init /\ [][NextRerun]_vars

\* A caller that plays moves on empty cells and then calls
\* policy._get_action(env, epsilon) once, in whatever state the game is.
CallerStep(a) ==
  /\ pc = "select"
  /\ a \in Cells
  /\ board[a] = 0
  /\ EnvStep(a)

InitCaller ==
  /\ InitEnvFields
  /\ InitPolicy
  /\ pc = "select"
  /\ epsilon \in Epsilons
  /\ learning_rate = 1
  /\ num_games = 0

NextCaller ==
  \/ \E a \in Cells : CallerStep(a)
  \/ GetActionExplore
  \/ SelectExploit

SpecCaller == InitCaller /\ [][NextCaller]_vars

\* The interpreter keeps executing _learn: while the call has not returned,
\* its position eventually changes.  Every step of Next changes pc, and only
\* steps of Next do.
PcValues == {"start", "loop", "select", "step", "finish", "done"}

Advance == pc # "done" /\ pc' \in PcValues /\ pc' # pc

FairSpec == Spec /\ WF_pc(Advance)

\* ------------------------------------------------------------ properties
HasLine(b, m) ==
  \/ \E r \in 0 .. 2 : \A c \in 0 .. 2 : b[3 * r + c] = m
  \/ \E c \in 0 .. 2 : \A r \in 0 .. 2 : b[3 * r + c] = m
  \/ \A d \in 0 .. 2 : b[4 * d] = m
  \/ \A d \in 0 .. 2 : b[2 * d + 2] = m
NumMarks(b) == Cardinality({c \in Cells : b[c] # 0})

\* C1: a step on an occupied cell raises an error and leaves board, turn and
\* move counter unchanged.
C1_IllegalStepRejected ==
  [][\A a \in Cells :
       (board[a] # 0 /\ EnvStep(a)) =>
         (raised' /\ board' = board /\ turn' = turn
                  /\ count_moves' = count_moves)]_vars

\* C2: from a state reached by legal moves, a step on an empty cell a sets
\* exactly cell a to the mover's mark, keeps the other eight cells, flips the
\* turn and adds one to the move counter, also when the move ends the game.
C2_LegalStepFrame ==
  [][\A a \in Cells :
       (n_illegal = 0 /\ board[a] = 0 /\ EnvStep(a)) =>
         /\ board'[a] = turn
         /\ \A c \in Cells \ {a} : board'[c] = board[c]
         /\ turn' \in Marks /\ turn' # turn
         /\ count_moves' = count_moves + 1]_vars

C2_Witness ==
  n_illegal = 0 /\ count_moves = 9 /\ terminated /\ turn = 2 /\ Full(board)

\* C3: after legal moves only, the flag returned by step is true exactly when
\* the board has a complete line of X or of O, or has no empty cell.
C3_TerminatedIffLineOrFull ==
  (n_illegal = 0 /\ count_moves > 0) =>
     (terminated <=> (HasLine(board, 1) \/ HasLine(board, 2) \/ Full(board)))

\* Tie-break by index: the smallest index among the
\* legal actions of b whose table value is maximal.
FirstAscendingMax(T, b) ==
  CHOOSE a \in Cells :
    /\ b[a] = 0
    /\ \A c \in Cells : b[c] = 0 => Value(T, b, c) <= Value(T, b, a)
    /\ \A c \in Cells : (b[c] = 0 /\ c < a) => Value(T, b, c) < Value(T, b, a)

\* C4: in the exploitation branch the returned action is the first action, in
\* ascending index order, among the legal actions of maximal table value,
\* whatever the order in which the entries of that board were inserted.
C4_GreedyFirstAscendingMax ==
  (pc = "step" /\ branch = "exploit") => action = FirstAscendingMax(Q, board)

\* Return of a player from trajectory index idx on: the step penalties of the
\* moves idx..n and the terminal reward that closes the reward list.
Last(seq) == seq[Len(seq)]
ReturnFrom(rewards, idx) ==
  (Len(rewards) - idx) * RewardStep + Last(rewards)

\* C5: the backward pass leaves every pair (board before the player's i-th
\* move, action taken) at old + learning_rate * (G - old), with G the sum of
\* that player's rewards from index i on, terminal reward included.
C5_BackwardPassUpdate ==
  [][(pc = "finish" /\ pc' = "loop") =>
       \A p \in Marks : \A idx \in DOMAIN sequence'[p].board :
         LET b == sequence'[p].board[idx]
             a == sequence'[p].action[idx]
             G == ReturnFrom(sequence'[p].reward, idx)
             old == Value(Q, b, a)
         IN /\ sequence'[p].reward[idx] = RewardStep
            /\ LrDen * Value(Q', b, a)
                 = LrDen * old + learning_rate * (G * Unit - old)]_vars

C5_Witness ==
  /\ pc = "loop" /\ i >= 2 /\ ~raised
  /\ \A p \in Marks : \E idx \in DOMAIN sequence[p].board :
       LET b == sequence[p].board[idx]
           a == sequence[p].action[idx]
       IN LrDen * Value(Q, b, a)
            # learning_rate * ReturnFrom(sequence[p].reward, idx) * Unit

\* The game of the scenario: one game, learning rate 0.1, X plays 0, 1, 2 and
\* O plays 3, 4, and the table has been updated.
ScenarioRowWin ==
  /\ pc = "loop" /\ i = 1 /\ num_games = 1 /\ learning_rate = 1
  /\ sequence[1].action = <<0, 1, 2>>
  /\ sequence[2].action = <<3, 4>>

\* C6: in that game X's return from the first move is 0.96 and
\* Q(empty board, 0) is 0.096 after the update.
C6_ReturnIs096 ==
  ScenarioRowWin =>
    /\ ReturnFrom(sequence[1].reward, 1) = 96
    /\ 1000 * Value(Q, EmptyBoard, 0) = 96 * 100 * Unit

\* C6 as amended: X made three moves, so the return is 3 * (-0.01) + 1 = 0.97
\* and Q(empty board, 0) is 0.097.
C6_ReturnIs097 ==
  ScenarioRowWin =>
    /\ sequence[1].reward = <<RewardStep, RewardStep, RewardStep, RewardWin>>
    /\ ReturnFrom(sequence[1].reward, 1) = 97
    /\ 1000 * Value(Q, EmptyBoard, 0) = 97 * 100 * Unit

C6_Witness == ScenarioRowWin /\ HasEntry(Q, EmptyBoard, 0) /\ is_winner(board, 1)

\* C7: the end of an episode appends exactly one reward to each player's
\* list: +1 to the player with a line, -2 to the other one, and +0.5 to both
\* when the board is full without a line.
C7_TerminalRewards ==
  [][(pc = "finish" /\ pc' = "loop") =>
       \A p \in Marks :
         \E r \in {RewardWin, RewardDraw, RewardLoss} :
           /\ sequence'[p].reward = Append(sequence[p].reward, r)
           /\ HasLine(board, p) => r = RewardWin
           /\ HasLine(board, flip(p)) => r = RewardLoss
           /\ (~HasLine(board, 1) /\ ~HasLine(board, 2)) =>
                (r = RewardDraw /\ Full(board))]_vars

C7_Witness ==
  /\ pc = "loop" /\ i > 0 /\ Full(board)
  /\ ~HasLine(board, 1) /\ ~HasLine(board, 2)
  /\ Last(sequence[1].reward) = RewardDraw
  /\ Last(sequence[2].reward) = RewardDraw

\* C8: after an exploitation-branch selection every legal action of the board
\* has a table entry, the new ones with value 0, the old ones with their
\* value, and the selected action is among them.
C8_ExploitInitialisesAll ==
  [][(pc = "select" /\ pc' = "step" /\ branch' = "exploit") =>
       /\ \A a \in Cells : board[a] = 0 =>
            /\ HasEntry(Q', board, a)
            /\ Value(Q', board, a) =
                 IF HasEntry(Q, board, a) THEN Value(Q, board, a) ELSE 0
       /\ HasEntry(Q', board, action')]_vars

C8_Witness ==
  /\ pc = "step" /\ branch = "exploit"
  /\ \E a \in Cells : HasEntry(Q, board, a) /\ Value(Q, board, a) # 0
  /\ \E a \in Cells : HasEntry(Q, board, a) /\ Value(Q, board, a) = 0

\* C9: an exploration-branch selection adds at most the entry (board, chosen
\* action), with value 0, and changes no other entry or value.
C9_ExploreTouchesOne ==
  [][(pc = "select" /\ pc' = "step" /\ branch' = "explore") =>
       /\ Entries(Q') = Entries(Q) \cup {<<board, action'>>}
       /\ \A e \in Entries(Q) : Value(Q', e[1], e[2]) = Value(Q, e[1], e[2])
       /\ <<board, action'>> \notin Entries(Q) => Value(Q', board, action') = 0
       /\ \A b \in DOMAIN Q :
            \A k \in DOMAIN Q[b] : Q'[b][k] = Q[b][k]]_vars

C9_Witness ==
  /\ pc = "step" /\ branch = "explore"
  /\ Value(Q, board, action) = 0
  /\ \E a \in Cells : a # action /\ HasEntry(Q, board, a)
                       /\ Value(Q, board, a) # 0
  /\ \E a \in Cells : board[a] = 0 /\ ~HasEntry(Q, board, a)

\* C10: when the backward pass starts, every recorded (board, action) pair
\* has a table entry, and the recorded board is the board before that move.
C10_TrajectoryInTable ==
  pc = "finish" =>
    \A p \in Marks : \A idx \in DOMAIN sequence[p].board :
      LET b == sequence[p].board[idx]
          a == sequence[p].action[idx]
      IN /\ HasEntry(Q, b, a)
         /\ b[a] = 0
         /\ NumMarks(b) = 2 * (idx - 1) + (p - 1)
         /\ board[a] = p
         /\ \A c \in Cells : b[c] # 0 => b[c] = board[c]

C10_Witness ==
  /\ pc = "finish" /\ explored = MaxExplore /\ i >= 1
  /\ Len(sequence[1].board) >= 3 /\ Len(sequence[2].board) >= 3

\* C11: inside an episode no step is applied once a step has reported
\* terminated, or once the board has a line or is full; the next change of
\* the environment is the reset of the next episode.
C11_NoStepAfterTerminal ==
  [][(terminated \/ HasLine(board, 1) \/ HasLine(board, 2) \/ Full(board)) =>
       \/ (count_moves' = count_moves /\ board' = board /\ turn' = turn)
       \/ (count_moves' = 0 /\ board' = EmptyBoard /\ ~terminated')]_vars

C11_Witness ==
  /\ pc = "select" /\ i >= 1 /\ count_moves = 0 /\ ~terminated
  /\ Len(rng_log) = i + 1 /\ board = EmptyBoard
  /\ Q # EmptyTable

\* C12: a run with num_games >= 0 ends, after exactly num_games episodes and
\* as many updates of the counter; no episode has more than 9 moves; with
\* num_games = 0 the table stays empty.
C12_TerminatesAfterNumGames ==
  /\ <>(pc = "done")
  /\ [](count_moves <= NumCells)
  /\ [](pc = "done" =>
          /\ ~raised
          /\ i = num_games
          /\ Len(rng_log) = num_games
          /\ num_games = 0 => Q = EmptyTable)

C12_Witness ==
  /\ pc = "done" /\ num_games = MaxGames /\ i = MaxGames
  /\ Len(rng_log) = MaxGames /\ Q # EmptyTable /\ count_moves = NumCells

\* C13: a second run with the same arguments and the same seeds, hence the
\* same outputs of the random source in every episode, ends with the table
\* of the first run, although it starts from the table the first run left.
C13_RerunSameTable ==
  (first.done /\ pc = "done") =>
     /\ ~raised
     /\ Q = first.Q
     /\ rng_log = first.log

C13_Witness ==
  /\ first.done /\ pc = "done" /\ i = MaxGames /\ explored = MaxExplore
  /\ Q # EmptyTable /\ Q = first.Q
  /\ \E e \in Entries(Q) : Value(Q, e[1], e[2]) # 0

\* C14: with epsilon = 0 a selection draws nothing from the random source and
\* takes the exploitation branch.
C14_GreedyDrawsNothing ==
  [][(pc = "select" /\ pc' # "select" /\ epsilon = 0) =>
       (rng' = rng /\ branch' = "exploit")]_vars

C14_Witness ==
  /\ pc = "step" /\ epsilon = 0 /\ branch = "exploit" /\ rng = << >>
  /\ i >= 1 /\ count_moves >= 1

\* C15: after the reset of the table at the start of a run, no step removes
\* a board key or a (board, action) entry.
C15_TableOnlyGrows ==
  [][pc # "start" =>
       /\ DOMAIN Q \subseteq DOMAIN Q'
       /\ Entries(Q) \subseteq Entries(Q')]_vars

C15_Witness ==
  /\ first.done /\ pc = "done" /\ i = MaxGames
  /\ Cardinality(Entries(Q)) > 2 * NumCells

ValidConfig ==
  /\ epsilon >= 0 /\ epsilon < 100
  /\ learning_rate > 0 /\ learning_rate <= LrDen
  /\ num_games >= 0

\* C16: a call of the trainer with epsilon outside [0,1), learning_rate
\* outside (0,1] or num_games < 0 ends with an error, never as a completed
\* run.
C16_InvalidConfigRejected ==
  (pc = "done" /\ ~ValidConfig) => raised

TerminalBoard(b) == HasLine(b, 1) \/ HasLine(b, 2) \/ Full(b)

\* C17: a selection on a board with a line or on a full board ends with an
\* error, in either branch, and adds no entry for that board.
C17_TerminalSelectionRejected ==
  (pc # "select" /\ TerminalBoard(board)) =>
     (raised /\ \A a \in Cells : ~HasEntry(Q, board, a))

\* C18: the action returned by a selection is an empty cell of the board, and
\* the action keys stored under a board are empty cells of that board.
C18_SelectedActionLegal ==
  /\ pc = "step" => (action \in Cells /\ board[action] = 0)
  /\ n_illegal = 0
  /\ \A b \in DOMAIN Q : \A a \in Keys(Q[b]) : a \in Cells /\ b[a] = 0

C18_Witness ==
  /\ pc = "step" /\ branch = "exploit" /\ count_moves >= 6 /\ i >= 1
  /\ \E a \in Cells : a < action /\ board[a] = 0
  /\ \E a \in Cells : a < action /\ board[a] # 0

CountOf(b, m) == Cardinality({c \in Cells : b[c] = m})

\* C19: after legal moves only, X has as many marks as O when it is X's
\* turn and one more when it is O's turn, and the move counter is the number
\* of marks on the board.
C19_TurnFromBoard ==
  n_illegal = 0 =>
     /\ turn \in Marks
     /\ turn = 1 => CountOf(board, 1) = CountOf(board, 2)
     /\ turn = 2 => CountOf(board, 1) = CountOf(board, 2) + 1
     /\ count_moves = NumMarks(board)

C19_Witness ==
  /\ n_illegal = 0 /\ count_moves = 6 /\ turn = 1 /\ ~terminated
  /\ HasLine(board, 1) /\ CountOf(board, 2) = 3

\* C19, consequence for the table: every board recorded in a trajectory is
\* recorded for the player its mark counts determine.
C19_OneMoverPerKey ==
  \A p \in Marks : \A idx \in DOMAIN sequence[p].board :
    LET b == sequence[p].board[idx]
    IN p = IF CountOf(b, 1) = CountOf(b, 2) THEN 1 ELSE 2

\* C20: when an episode is over at most one mark has a line, a line belongs
\* to the player who moved last, a board without a line is full, and the two
\* terminal rewards are +1/-2, -2/+1 or +0.5/+0.5.
C20_OneOutcome ==
  /\ pc = "finish" =>
       /\ ~(HasLine(board, 1) /\ HasLine(board, 2))
       /\ \A m \in Marks : HasLine(board, m) => m = flip(turn)
       /\ (~HasLine(board, 1) /\ ~HasLine(board, 2)) => Full(board)
  /\ (pc = "loop" /\ i > 0) =>
       <<Last(sequence[1].reward), Last(sequence[2].reward)>> \in
          { <<RewardWin, RewardLoss>>, <<RewardLoss, RewardWin>>,
            <<RewardDraw, RewardDraw>> }

C20_Witness ==
  /\ pc = "loop" /\ i > 0 /\ HasLine(board, 2) /\ ~Full(board)
  /\ Last(sequence[2].reward) = RewardWin
  /\ Last(sequence[1].reward) = RewardLoss

====
